---- MODULE Spec2Model ----
(***************************************************************************)
(* The external-processing server of the inference gateway extension:      *)
(* Server.Process (pkg/ext-proc/handlers/server.go), one gRPC stream per   *)
(* HTTP request, and the metrics package it records into.                  *)
(*                                                                         *)
(* Spec         one stream driven through Process by an arbitrary          *)
(*              transport (any message order, EOF, errors, cancellation).  *)
(* SpecMetrics  the Record* functions of the metrics package called with   *)
(*              arbitrary arguments.                                       *)
(***************************************************************************)
EXTENDS Bags, FiniteSets, Integers, Sequences, TLC

(***************************************************************************)
(* Bounds of the model.                                                    *)
(***************************************************************************)
MaxMsgs == 3      \* messages the transport delivers on the stream
MaxTime == 2      \* largest reading of the clock
MaxCalls == 2     \* calls made to the metrics package in SpecMetrics

(***************************************************************************)
(* Values.                                                                 *)
(***************************************************************************)
\* time.Time{}: the zero value of RequestContext's timestamps.  Every
\* reading of time.Now() is later than it.
ZeroTime == 0
Times == ZeroTime..MaxTime

\* grpc codes; "OK" is status.Code(nil).
OK == "OK"
ResourceExhausted == "ResourceExhausted"
Unavailable == "Unavailable"
InvalidArgument == "InvalidArgument"
Unknown == "Unknown"

\* envoyTypePb.StatusCode_TooManyRequests
TooManyRequests == 429

\* Return values of Process.
NoRet == [kind |-> "running", code |-> OK]
RetNil == [kind |-> "nil", code |-> OK]
\* ctx.Err(): returned as it is, not wrapped in a status.
RetCtxErr == [kind |-> "ctxErr", code |-> "Canceled"]
StatusErr(code) == [kind |-> "status", code |-> code]

\* Backends known to the store and the aliases of the model registry.
Backends == {"10.0.0.1:8000", "10.0.0.2:8000"}
NoPod == ""
NoModel == ""

\* usage of a response body; absent usage decodes to the zero Usage.
NoUsage == [present |-> FALSE, PromptTokens |-> 0, CompletionTokens |-> 0]
SomeUsage == [present |-> TRUE, PromptTokens |-> 1, CompletionTokens |-> 2]
ZeroResponse == [Usage |-> [PromptTokens |-> 0, CompletionTokens |-> 0]]

(***************************************************************************)
(* Messages of the stream (extProcPb.ProcessingRequest).  All variants     *)
(* carry the same fields so that they form one set.                        *)
(***************************************************************************)
Msg(type, model, size, eos, usage) ==
    [type |-> type, model |-> model, size |-> size, endOfStream |-> eos, usage |-> usage]

NoMsg == Msg("none", NoModel, 0, FALSE, NoUsage)
RequestHeadersMsgs == {Msg("RequestHeaders", NoModel, 0, FALSE, NoUsage)}
\* The request bodies: one naming alias m1, one naming alias m2 and one
\* without "model" field; BodyLen is len(v.RequestBody.Body) of each.
BodyLen(model) == IF model = "m1" THEN 3 ELSE 4
RequestBodyMsgs ==
    {Msg("RequestBody", m, BodyLen(m), TRUE, NoUsage) : m \in {"m1", "m2", NoModel}}
ResponseHeadersMsgs == {Msg("ResponseHeaders", NoModel, 0, FALSE, NoUsage)}
\* Response body chunks of one byte, with or without usage, the last one
\* or not.
ResponseBodyMsgs ==
    {Msg("ResponseBody", NoModel, 1, eos, u) :
        eos \in BOOLEAN, u \in {NoUsage, SomeUsage}}
\* RequestTrailers / ResponseTrailers: the default branch of the type switch.
OtherMsgs == {Msg("Other", NoModel, 0, FALSE, NoUsage)}
Messages ==
    RequestHeadersMsgs \cup RequestBodyMsgs \cup ResponseHeadersMsgs
        \cup ResponseBodyMsgs \cup OtherMsgs

(***************************************************************************)
(* Responses (extProcPb.ProcessingResponse).                               *)
(***************************************************************************)
\* A CommonResponse answering a message of the given phase; setHeaders is
\* the header mutation (pairs of key and value).
CommonResponse(phase, setHeaders) ==
    [kind |-> phase, status |-> 0, setHeaders |-> setHeaders]
ImmediateResponse(status) ==
    [kind |-> "ImmediateResponse", status |-> status, setHeaders |-> {}]
NoResp == [kind |-> "nil", status |-> 0, setHeaders |-> {}]

targetPodHeader == "target-pod"

(***************************************************************************)
(* RequestContext and its zero value (reqCtx := &RequestContext{}).        *)
(***************************************************************************)
RequestContext ==
    [TargetPod |-> NoPod,
     Model |-> NoModel,
     ResolvedTargetModel |-> NoModel,
     RequestReceivedTimestamp |-> ZeroTime,
     ResponseCompleteTimestamp |-> ZeroTime,
     RequestSize |-> 0,
     Response |-> ZeroResponse,
     ResponseSize |-> 0,
     ResponseComplete |-> FALSE]

VARIABLES
    pc,             \* position of Process: select, recv, handle, send, done
    cancelled,      \* ctx.Done() is closed
    clock,          \* last reading of time.Now()
    req,            \* the message returned by srv.Recv()
    resp,           \* the response about to be sent
    reqCtx,         \* the RequestContext of this invocation
    ret,            \* the value Process returned
    requestCounter, \* the metric vectors, bags of labelled observations
    requestLatencies,
    requestSizes,
    responseSizes,
    inputTokens,
    outputTokens,
    handled,        \* history: messages dispatched, with the handler's error
    sent,           \* history: responses accepted by srv.Send
    nRecv,          \* history: number of messages received
    transportErr,   \* history: Recv or Send failed
    atCancel,       \* history: where Process stood when ctx was cancelled
    call,           \* SpecMetrics: the last call made to the metrics package
    latRet,         \* SpecMetrics: what RecordRequestLatencies returned
    recvResult,     \* history: what the last srv.Recv() returned
    stream,         \* SpecStreams: the concurrent invocations of Process
    store,          \* SpecSched: the backend store
    scheduling,     \* SpecSched: the scheduling call in progress
    once,           \* SpecRegister: registerMetrics (sync.Once)
    registry,       \* SpecRegister: the registrations made in legacyregistry
    caller,         \* SpecRegister: the goroutines calling Register
    tracing,        \* SpecTracing: the call of Initialize and what it returned
    otel,           \* SpecTracing: the globals of the otel packages
    closing         \* SpecTracing: the providers and the calls of shutdown

metricVars ==
    <<requestCounter, requestLatencies, requestSizes, responseSizes, inputTokens, outputTokens>>
streamVars ==
    <<pc, cancelled, clock, req, resp, reqCtx, ret, handled, sent, nRecv, transportErr, atCancel>>
callVars == <<call, latRet>>
\* The variables of the other specifications, which Process and the calls
\* of SpecMetrics leave alone.
startVars == <<once, registry, caller, tracing, otel, closing>>
extVars == <<stream, store, scheduling, startVars>>
auxVars == <<recvResult, extVars>>
vars == <<streamVars, metricVars, callVars, auxVars>>

(***************************************************************************)
(* The metrics package.  A metric vector is a bag of observations:         *)
(* <<model_name, target_model_name>> for the counter and                   *)
(* <<model_name, target_model_name, value>> for a histogram.               *)
(***************************************************************************)
\* Faulty variant of Inc: the counter is read, then written back one
\* higher than a reading that missed the increments before.
IncOverwriting(vec, modelName, targetModelName) ==
    IF CopiesIn(<<modelName, targetModelName>>, vec) > 0
    THEN vec
    ELSE vec (+) SetToBag({<<modelName, targetModelName>>})

Inc(vec, modelName, targetModelName) ==
    vec (+) SetToBag({<<modelName, targetModelName>>})
Observe(vec, modelName, targetModelName, value) ==
    vec (+) SetToBag({<<modelName, targetModelName, value>>})

\* Faulty variant of After: !complete.Before(received) in place of
\* complete.After(received), which lets a zero latency through.
AfterOrEqual(t, u) == t >= u

\* time.Time.After and time.Time.Sub on the readings of the model's clock.
After(t, u) == t > u
Sub(t, u) == t - u

\* Faulty variant of RecordRequestCounter: the increment is lost.
RecordRequestCounterLost(vec, modelName, targetModelName) == vec

RecordRequestCounter(vec, modelName, targetModelName) ==
    Inc(vec, modelName, targetModelName)

RecordRequestSizes(vec, modelName, targetModelName, reqSize) ==
    Observe(vec, modelName, targetModelName, reqSize)

\* Returns the boolean result and the histogram after the call.
RecordRequestLatencies(vec, modelName, targetModelName, received, complete) ==
    IF ~After(complete, received)
    THEN [ret |-> FALSE, vec |-> vec]
    ELSE [ret |-> TRUE,
          vec |-> Observe(vec, modelName, targetModelName, Sub(complete, received))]

RecordResponseSizes(vec, modelName, targetModelName, size) ==
    Observe(vec, modelName, targetModelName, size)

RecordInputTokens(vec, modelName, targetModelName, size) ==
    Observe(vec, modelName, targetModelName, size)

RecordOutputTokens(vec, modelName, targetModelName, size) ==
    Observe(vec, modelName, targetModelName, size)

(***************************************************************************)
(* The collaborators of Process that the handlers call: the model          *)
(* registry, the backend store and the scheduler.                          *)
(***************************************************************************)
\* The registry projection: alias -> (traffic-split targets, criticality).
\* An alias without InferenceModel passes through unchanged.
FetchModelData(alias) ==
    CASE alias = "m1" -> [targetModels |-> {"t1"}, criticality |-> "Sheddable"]
      [] alias = "m2" -> [targetModels |-> {"t2", "t3"}, criticality |-> "Critical"]
      [] OTHER -> [targetModels |-> {alias}, criticality |-> "Standard"]

\* The targets a weighted draw can return.
PickTarget(model) == model.targetModels

\* What the store knows of a backend when the snapshot is taken: absent,
\* fresh metrics, fresh metrics of a saturated backend, or stale metrics.
PodStates == {"absent", "fresh", "saturated", "stale"}
Snapshots == [Backends -> PodStates]

\* The results Schedule can return on a snapshot: UNAVAILABLE on an empty
\* store or when no candidate is left, RESOURCE_EXHAUSTED when a Sheddable
\* request is shed, otherwise one of the surviving candidates.
Schedule(llmReq, snapshot) ==
    LET known == {b \in Backends : snapshot[b] # "absent"}
        fresh == {b \in known : snapshot[b] # "stale"}
        open == {b \in fresh : snapshot[b] = "fresh"}
    IN  IF known = {} \/ fresh = {}
        THEN {[pod |-> NoPod, err |-> Unavailable]}
        ELSE IF open = {}
        THEN IF llmReq.criticality = "Sheddable"
             THEN {[pod |-> NoPod, err |-> ResourceExhausted]}
             ELSE {[pod |-> NoPod, err |-> Unavailable]}
        ELSE {[pod |-> b, err |-> OK] : b \in open}

(***************************************************************************)
(* The handlers.  Each returns the response, the error (as its status      *)
(* code) and the RequestContext it leaves.                                 *)
(***************************************************************************)
HandleRequestHeaders(ctx, msg) ==
    [resp |-> CommonResponse("RequestHeaders", {}), err |-> OK, ctx |-> ctx]

\* target is the weighted draw, sched the result of Schedule.
HandleRequestBody(ctx, msg, target, sched) ==
    IF msg.model = NoModel
    THEN [resp |-> NoResp, err |-> InvalidArgument, ctx |-> ctx]
    ELSE IF sched.err # OK
    THEN [resp |-> NoResp, err |-> sched.err, ctx |-> ctx]
    ELSE [resp |-> CommonResponse("RequestBody", {<<targetPodHeader, sched.pod>>}),
          err |-> OK,
          ctx |-> [ctx EXCEPT !.Model = msg.model,
                              !.ResolvedTargetModel = target,
                              !.RequestSize = msg.size,
                              !.TargetPod = sched.pod]]

\* fail is the error the handler runs into, OK when it succeeds.
HandleResponseHeaders(ctx, msg, fail) ==
    IF fail # OK
    THEN [resp |-> NoResp, err |-> fail, ctx |-> ctx]
    ELSE [resp |-> CommonResponse("ResponseHeaders", {}), err |-> OK, ctx |-> ctx]

HandleResponseBody(ctx, msg, fail) ==
    IF fail # OK
    THEN [resp |-> NoResp, err |-> fail, ctx |-> ctx]
    ELSE [resp |-> CommonResponse("ResponseBody", {}),
          err |-> OK,
          ctx |-> [ctx EXCEPT
                     !.Response = IF msg.usage.present
                                  THEN [Usage |-> [PromptTokens |-> msg.usage.PromptTokens,
                                                   CompletionTokens |-> msg.usage.CompletionTokens]]
                                  ELSE @,
                     !.ResponseSize = @ + msg.size,
                     !.ResponseComplete = @ \/ msg.endOfStream]]

\* The errors a response handler can run into.
HandlerFailures == {OK, Unknown, ResourceExhausted}

(***************************************************************************)
(* The backend store as the scheduler reads it.  An entry carries the age  *)
(* of its metrics (now - lastUpdated, in seconds, counted up to one past   *)
(* the staleness threshold) and whether the backend is saturated.          *)
(***************************************************************************)
\* Default of the metricStaleness option, in seconds.
metricStaleness == 5
MaxAge == metricStaleness + 1

NoEntry == [known |-> FALSE, age |-> 0, saturated |-> FALSE]
Entries == {NoEntry} \cup [known : {TRUE}, age : 0..MaxAge, saturated : BOOLEAN]

\* Faulty variant of Classify: the age of the metrics is not looked at.
ClassifyIgnoringAge(entry) ==
    IF ~entry.known THEN "absent"
    ELSE IF entry.saturated THEN "saturated"
    ELSE "fresh"

\* What a consumer of the store makes of an entry.
Classify(entry) ==
    IF ~entry.known THEN "absent"
    ELSE IF entry.age > metricStaleness THEN "stale"
    ELSE IF entry.saturated THEN "saturated"
    ELSE "fresh"

\* List(): the snapshot of the store handed to the filters.
List(st) == [b \in Backends |-> Classify(st[b])]

EmptyStore == [b \in Backends |-> NoEntry]
NoResult == [pod |-> NoPod, err |-> OK]
Idle ==
    [pc |-> "idle", msg |-> NoMsg, raw |-> EmptyStore, result |-> NoResult,
     resp |-> NoResp, ctx |-> RequestContext, err |-> OK]

(***************************************************************************)
(* Concurrent streams: every stream is served by its own invocation of     *)
(* Process, with its own locals.                                           *)
(***************************************************************************)
Streams == {"s1", "s2"}
FreshStream ==
    [pc |-> "recv", req |-> NoMsg, resp |-> NoResp, reqCtx |-> RequestContext,
     nRecv |-> 0]

(***************************************************************************)
(* Start-up.  Register registers the six metric vectors under a sync.Once; *)
(* the goroutines below call it.                                           *)
(***************************************************************************)
Goroutines == {"g1", "g2", "g3"}
\* The vectors in the order Register registers them.
MetricNames ==
    <<"request_total", "request_duration_seconds", "request_sizes",
      "response_sizes", "input_tokens", "output_tokens">>
NoGoroutine == "none"
\* var registerMetrics sync.Once: not done, mutex free.
FreshOnce == [done |-> FALSE, m |-> NoGoroutine]
\* A goroutine outside Register: i counts the vectors the function it runs
\* under the Once has registered, returned its calls of Register that have
\* returned.
NotCalling == [pc |-> "idle", i |-> 0, returned |-> 0]

(***************************************************************************)
(* tracing.Initialize.  An error value is the sequence of the errors       *)
(* joined in it; nil is the empty sequence.                                *)
(***************************************************************************)
Nil == <<>>
\* The providers Initialize creates, named as its locals.
Providers == {"tp", "lp"}
\* Before Initialize is called: no config, no closure, nothing returned;
\* registered is the history of the appends to shutdownFuncs; before is what
\* the global providers were when Initialize was called.
NotInitialized ==
    [pc |-> "idle", enabled |-> FALSE, shutdownFuncs |-> <<>>, registered |-> <<>>,
     shutdown |-> "none", err |-> Nil,
     before |-> [tracerProvider |-> "noop", loggerProvider |-> "noop"]]
NoGlobals == [propagator |-> "none", tracerProvider |-> "noop", loggerProvider |-> "noop"]
\* No provider exists and shutdown has not been called.
NotClosing ==
    [pc |-> "idle", funcs |-> <<>>, pos |-> 0, err |-> Nil,
     state |-> [p \in Providers |-> "none"], invoked |-> <<>>, rets |-> <<>>]

(***************************************************************************)
(* Initial state: Process has been called on a fresh stream and stands at  *)
(* the top of its loop; the metric vectors are empty.                      *)
(***************************************************************************)
NotCancelled == [pc |-> "none", nRecv |-> 0, nSent |-> 0, nObs |-> 0]
NoCall ==
    [fn |-> "none", n |-> 0, modelName |-> NoModel, targetModelName |-> NoModel,
     received |-> ZeroTime, complete |-> ZeroTime, size |-> 0]

Init ==
    /\ pc = "select"
    /\ cancelled = FALSE
    /\ clock = ZeroTime + 1
    /\ req = NoMsg
    /\ resp = NoResp
    /\ reqCtx = RequestContext
    /\ ret = NoRet
    /\ requestCounter = EmptyBag
    /\ requestLatencies = EmptyBag
    /\ requestSizes = EmptyBag
    /\ responseSizes = EmptyBag
    /\ inputTokens = EmptyBag
    /\ outputTokens = EmptyBag
    /\ handled = <<>>
    /\ sent = <<>>
    /\ nRecv = 0
    /\ transportErr = FALSE
    /\ atCancel = NotCancelled
    /\ call = NoCall
    /\ latRet = FALSE
    /\ recvResult = "none"
    /\ stream = [s \in Streams |-> FreshStream]
    /\ store = EmptyStore
    /\ scheduling = Idle
    /\ once = FreshOnce
    /\ registry = EmptyBag
    /\ caller = [g \in Goroutines |-> NotCalling]
    /\ tracing = NotInitialized
    /\ otel = NoGlobals
    /\ closing = NotClosing

\* Number of observations recorded so far, over the six metrics.
TotalObservations ==
    BagCardinality(requestCounter) + BagCardinality(requestLatencies)
        + BagCardinality(requestSizes) + BagCardinality(responseSizes)
        + BagCardinality(inputTokens) + BagCardinality(outputTokens)

(***************************************************************************)
(* Process, server.go:53-134.                                              *)
(***************************************************************************)
\* The client cancels or the process shuts down: ctx.Done() is closed, at
\* any point of the loop.
Cancel ==
    /\ pc # "done"
    /\ ~cancelled
    /\ cancelled' = TRUE
    /\ atCancel' = [pc |-> pc, nRecv |-> nRecv, nSent |-> Len(sent), nObs |-> TotalObservations]
    /\ UNCHANGED <<pc, clock, req, resp, reqCtx, ret, handled, sent, nRecv, transportErr>>
    /\ UNCHANGED <<metricVars, callVars, auxVars>>

\* Faulty variant of Select: the loop never looks at ctx.Done().
SelectIgnoringDone ==
    /\ pc = "select"
    /\ pc' = "recv"
    /\ UNCHANGED <<cancelled, clock, req, resp, reqCtx, ret, handled, sent, nRecv, transportErr, atCancel>>
    /\ UNCHANGED <<metricVars, callVars, auxVars>>

\* select { case <-ctx.Done(): return ctx.Err(); default: }
Select ==
    /\ pc = "select"
    /\ IF cancelled
       THEN pc' = "done" /\ ret' = RetCtxErr
       ELSE pc' = "recv" /\ ret' = ret
    /\ UNCHANGED <<cancelled, clock, req, resp, reqCtx, handled, sent, nRecv, transportErr, atCancel>>
    /\ UNCHANGED <<metricVars, callVars, auxVars>>

\* req, err := srv.Recv() with err == nil.
RecvMsg ==
    /\ pc = "recv"
    /\ nRecv < MaxMsgs
    /\ \E m \in Messages : req' = m
    /\ nRecv' = nRecv + 1
    /\ pc' = "handle"
    /\ UNCHANGED <<cancelled, clock, resp, reqCtx, ret, handled, sent, transportErr, atCancel>>
    /\ recvResult' = "msg"
    /\ UNCHANGED <<metricVars, callVars, extVars>>

\* Faulty variant of RecvEOF: io.EOF is not told apart from the other errors.
RecvEOFAsError ==
    /\ pc = "recv"
    /\ pc' = "done"
    /\ ret' = StatusErr(Unknown)
    /\ transportErr' = TRUE
    /\ UNCHANGED <<cancelled, clock, req, resp, reqCtx, handled, sent, nRecv, atCancel>>
    /\ recvResult' = "EOF"
    /\ UNCHANGED <<metricVars, callVars, extVars>>

\* err == io.EOF
RecvEOF ==
    /\ pc = "recv"
    /\ pc' = "done"
    /\ ret' = RetNil
    /\ UNCHANGED <<cancelled, clock, req, resp, reqCtx, handled, sent, nRecv, transportErr, atCancel>>
    /\ recvResult' = "EOF"
    /\ UNCHANGED <<metricVars, callVars, extVars>>

\* err != nil: "cannot receive stream request"
RecvError ==
    /\ pc = "recv"
    /\ pc' = "done"
    /\ ret' = StatusErr(Unknown)
    /\ transportErr' = TRUE
    /\ UNCHANGED <<cancelled, clock, req, resp, reqCtx, handled, sent, nRecv, atCancel>>
    /\ recvResult' = "error"
    /\ UNCHANGED <<metricVars, callVars, extVars>>

\* Faulty variants of ErrorSwitch: the shed request answered with 503, every
\* error answered on the stream with the handler's response, and the
\* handler's code replaced by Unknown.
ErrorSwitchShed503(r, e) ==
    IF e = OK
    THEN [pc |-> "send", resp |-> r, ret |-> NoRet]
    ELSE IF e = ResourceExhausted
    THEN [pc |-> "send", resp |-> ImmediateResponse(503), ret |-> NoRet]
    ELSE [pc |-> "done", resp |-> r, ret |-> StatusErr(e)]
ErrorSwitchSwallow(r, e) ==
    IF e = ResourceExhausted
    THEN [pc |-> "send", resp |-> ImmediateResponse(TooManyRequests), ret |-> NoRet]
    ELSE [pc |-> "send", resp |-> r, ret |-> NoRet]
ErrorSwitchCodeUnknown(r, e) ==
    IF e = OK
    THEN [pc |-> "send", resp |-> r, ret |-> NoRet]
    ELSE IF e = ResourceExhausted
    THEN [pc |-> "send", resp |-> ImmediateResponse(TooManyRequests), ret |-> NoRet]
    ELSE [pc |-> "done", resp |-> r, ret |-> StatusErr(Unknown)]

\* if err != nil { switch status.Code(err) {...} }: where Process goes with
\* the response and the error of a handler.
ErrorSwitch(r, e) ==
    IF e = OK
    THEN [pc |-> "send", resp |-> r, ret |-> NoRet]
    ELSE IF e = ResourceExhausted
    THEN [pc |-> "send", resp |-> ImmediateResponse(TooManyRequests), ret |-> NoRet]
    ELSE [pc |-> "done", resp |-> r, ret |-> StatusErr(e)]

\* The part every branch of the type switch shares: the history entry and
\* the error switch that follows the type switch.
Dispatched(h) ==
    /\ handled' = Append(handled, [type |-> req.type, err |-> h.err,
                                   complete |-> h.ctx.ResponseComplete])
    /\ pc' = ErrorSwitch(h.resp, h.err).pc
    /\ resp' = ErrorSwitch(h.resp, h.err).resp
    /\ ret' = ErrorSwitch(h.resp, h.err).ret

\* case *extProcPb.ProcessingRequest_RequestHeaders
ProcessRequestHeaders ==
    /\ pc = "handle"
    /\ req.type = "RequestHeaders"
    /\ \E now \in clock..MaxTime :
         LET h == HandleRequestHeaders([reqCtx EXCEPT !.RequestReceivedTimestamp = now], req)
         IN  /\ clock' = now
             /\ reqCtx' = h.ctx
             /\ Dispatched(h)
    /\ UNCHANGED <<cancelled, req, sent, nRecv, transportErr, atCancel>>
    /\ UNCHANGED <<metricVars, callVars, auxVars>>

\* Faulty variant of ProcessRequestBody: the counter and the request size
\* are recorded whether or not the handler failed.
ProcessRequestBodyCountingRejected ==
    /\ pc = "handle"
    /\ req.type = "RequestBody"
    /\ \E snapshot \in Snapshots :
       \E target \in PickTarget(FetchModelData(req.model)) :
       \E sched \in Schedule(FetchModelData(req.model), snapshot) :
         LET h == HandleRequestBody(reqCtx, req, target, sched)
         IN  /\ reqCtx' = h.ctx
             /\ requestCounter' =
                  RecordRequestCounter(requestCounter, h.ctx.Model, h.ctx.ResolvedTargetModel)
             /\ requestSizes' =
                  RecordRequestSizes(requestSizes, h.ctx.Model,
                                     h.ctx.ResolvedTargetModel, h.ctx.RequestSize)
             /\ Dispatched(h)
    /\ UNCHANGED <<cancelled, clock, req, sent, nRecv, transportErr, atCancel>>
    /\ UNCHANGED <<requestLatencies, responseSizes, inputTokens, outputTokens, callVars, auxVars>>

\* case *extProcPb.ProcessingRequest_RequestBody
ProcessRequestBody ==
    /\ pc = "handle"
    /\ req.type = "RequestBody"
    /\ \E snapshot \in Snapshots :
       \E target \in PickTarget(FetchModelData(req.model)) :
       \E sched \in Schedule(FetchModelData(req.model), snapshot) :
         LET h == HandleRequestBody(reqCtx, req, target, sched)
         IN  /\ reqCtx' = h.ctx
             /\ IF h.err = OK
                THEN /\ requestCounter' =
                          RecordRequestCounter(requestCounter, h.ctx.Model,
                                               h.ctx.ResolvedTargetModel)
                     /\ requestSizes' =
                          RecordRequestSizes(requestSizes, h.ctx.Model,
                                             h.ctx.ResolvedTargetModel, h.ctx.RequestSize)
                ELSE UNCHANGED <<requestCounter, requestSizes>>
             /\ Dispatched(h)
    /\ UNCHANGED <<cancelled, clock, req, sent, nRecv, transportErr, atCancel>>
    /\ UNCHANGED <<requestLatencies, responseSizes, inputTokens, outputTokens, callVars, auxVars>>

\* case *extProcPb.ProcessingRequest_ResponseHeaders
ProcessResponseHeaders ==
    /\ pc = "handle"
    /\ req.type = "ResponseHeaders"
    /\ \E fail \in HandlerFailures :
         LET h == HandleResponseHeaders(reqCtx, req, fail)
         IN  /\ reqCtx' = h.ctx
             /\ Dispatched(h)
    /\ UNCHANGED <<cancelled, clock, req, sent, nRecv, transportErr, atCancel>>
    /\ UNCHANGED <<metricVars, callVars, auxVars>>

\* Faulty variant of ResponseBodyAccounting: the two labels are swapped and
\* the request size is observed as response size.
ResponseBodyAccountingMislabelled(h, now) ==
    IF h.err = OK /\ h.ctx.ResponseComplete
    THEN LET c == [h.ctx EXCEPT !.ResponseCompleteTimestamp = now]
         IN  [ctx |-> c,
              requestLatencies |->
                  RecordRequestLatencies(requestLatencies, c.ResolvedTargetModel, c.Model,
                                         c.RequestReceivedTimestamp,
                                         c.ResponseCompleteTimestamp).vec,
              responseSizes |->
                  RecordResponseSizes(responseSizes, c.ResolvedTargetModel, c.Model,
                                      c.RequestSize),
              inputTokens |->
                  RecordInputTokens(inputTokens, c.ResolvedTargetModel, c.Model,
                                    c.Response.Usage.PromptTokens),
              outputTokens |->
                  RecordOutputTokens(outputTokens, c.ResolvedTargetModel, c.Model,
                                     c.Response.Usage.CompletionTokens)]
    ELSE [ctx |-> h.ctx,
          requestLatencies |-> requestLatencies,
          responseSizes |-> responseSizes,
          inputTokens |-> inputTokens,
          outputTokens |-> outputTokens]

\* Faulty variant of ResponseBodyAccounting: every chunk handled without
\* error is accounted, complete or not.
ResponseBodyAccountingOnEveryChunk(h, now) ==
    IF h.err = OK
    THEN LET c == [h.ctx EXCEPT !.ResponseCompleteTimestamp = now]
         IN  [ctx |-> c,
              requestLatencies |->
                  RecordRequestLatencies(requestLatencies, c.Model, c.ResolvedTargetModel,
                                         c.RequestReceivedTimestamp,
                                         c.ResponseCompleteTimestamp).vec,
              responseSizes |->
                  RecordResponseSizes(responseSizes, c.Model, c.ResolvedTargetModel,
                                      c.ResponseSize),
              inputTokens |->
                  RecordInputTokens(inputTokens, c.Model, c.ResolvedTargetModel,
                                    c.Response.Usage.PromptTokens),
              outputTokens |->
                  RecordOutputTokens(outputTokens, c.Model, c.ResolvedTargetModel,
                                     c.Response.Usage.CompletionTokens)]
    ELSE [ctx |-> h.ctx,
          requestLatencies |-> requestLatencies,
          responseSizes |-> responseSizes,
          inputTokens |-> inputTokens,
          outputTokens |-> outputTokens]

\* What the ResponseBody branch records once the handler has returned h and
\* time.Now() has been read: the context and the four vectors afterwards.
ResponseBodyAccounting(h, now) ==
    IF h.err = OK /\ h.ctx.ResponseComplete
    THEN LET c == [h.ctx EXCEPT !.ResponseCompleteTimestamp = now]
         IN  [ctx |-> c,
              requestLatencies |->
                  RecordRequestLatencies(requestLatencies, c.Model, c.ResolvedTargetModel,
                                         c.RequestReceivedTimestamp,
                                         c.ResponseCompleteTimestamp).vec,
              responseSizes |->
                  RecordResponseSizes(responseSizes, c.Model, c.ResolvedTargetModel,
                                      c.ResponseSize),
              inputTokens |->
                  RecordInputTokens(inputTokens, c.Model, c.ResolvedTargetModel,
                                    c.Response.Usage.PromptTokens),
              outputTokens |->
                  RecordOutputTokens(outputTokens, c.Model, c.ResolvedTargetModel,
                                     c.Response.Usage.CompletionTokens)]
    ELSE [ctx |-> h.ctx,
          requestLatencies |-> requestLatencies,
          responseSizes |-> responseSizes,
          inputTokens |-> inputTokens,
          outputTokens |-> outputTokens]

\* case *extProcPb.ProcessingRequest_ResponseBody
ProcessResponseBody ==
    /\ pc = "handle"
    /\ req.type = "ResponseBody"
    /\ \E fail \in HandlerFailures :
       \E now \in clock..MaxTime :
         LET h == HandleResponseBody(reqCtx, req, fail)
             a == ResponseBodyAccounting(h, now)
         IN  /\ (h.err = OK /\ h.ctx.ResponseComplete) \/ now = clock
             /\ clock' = now
             /\ reqCtx' = a.ctx
             /\ requestLatencies' = a.requestLatencies
             /\ responseSizes' = a.responseSizes
             /\ inputTokens' = a.inputTokens
             /\ outputTokens' = a.outputTokens
             /\ Dispatched(h)
    /\ UNCHANGED <<cancelled, req, sent, nRecv, transportErr, atCancel>>
    /\ UNCHANGED <<requestCounter, requestSizes, callVars, auxVars>>

\* Faulty variant of ProcessUnknownType: the message is skipped and the
\* loop goes on.
ProcessUnknownTypeSkipped ==
    /\ pc = "handle"
    /\ req.type \notin {"RequestHeaders", "RequestBody", "ResponseHeaders", "ResponseBody"}
    /\ pc' = "select"
    /\ UNCHANGED <<cancelled, clock, req, resp, reqCtx, ret, handled, sent, nRecv, transportErr, atCancel>>
    /\ UNCHANGED <<metricVars, callVars, auxVars>>

\* default: return status.Error(codes.Unknown, "unknown request type")
ProcessUnknownType ==
    /\ pc = "handle"
    /\ req.type \notin {"RequestHeaders", "RequestBody", "ResponseHeaders", "ResponseBody"}
    /\ pc' = "done"
    /\ ret' = StatusErr(Unknown)
    /\ UNCHANGED <<cancelled, clock, req, resp, reqCtx, handled, sent, nRecv, transportErr, atCancel>>
    /\ UNCHANGED <<metricVars, callVars, auxVars>>

\* Faulty variant of SendOk: Process returns once an ImmediateResponse has
\* been sent.
SendOkEndingOnImmediate ==
    /\ pc = "send"
    /\ sent' = Append(sent, [seq |-> nRecv, type |-> req.type,
                             err |-> handled[Len(handled)].err, resp |-> resp])
    /\ IF resp.kind = "ImmediateResponse"
       THEN pc' = "done" /\ ret' = RetNil
       ELSE pc' = "select" /\ ret' = ret
    /\ UNCHANGED <<cancelled, clock, req, resp, reqCtx, handled, nRecv, transportErr, atCancel>>
    /\ UNCHANGED <<metricVars, callVars, auxVars>>

\* Faulty variant of SendOk: the response goes out twice.
SendOkTwice ==
    /\ pc = "send"
    /\ sent' = sent \o << [seq |-> nRecv, type |-> req.type,
                           err |-> handled[Len(handled)].err, resp |-> resp],
                          [seq |-> nRecv, type |-> req.type,
                           err |-> handled[Len(handled)].err, resp |-> resp] >>
    /\ pc' = "select"
    /\ UNCHANGED <<cancelled, clock, req, resp, reqCtx, ret, handled, nRecv, transportErr, atCancel>>
    /\ UNCHANGED <<metricVars, callVars, auxVars>>

\* srv.Send(resp) returns nil.
SendOk ==
    /\ pc = "send"
    /\ sent' = Append(sent, [seq |-> nRecv, type |-> req.type,
                             err |-> handled[Len(handled)].err, resp |-> resp])
    /\ pc' = "select"
    /\ UNCHANGED <<cancelled, clock, req, resp, reqCtx, ret, handled, nRecv, transportErr, atCancel>>
    /\ UNCHANGED <<metricVars, callVars, auxVars>>

\* Faulty variant of SendError: the send error is logged and the loop goes on.
SendErrorIgnored ==
    /\ pc = "send"
    /\ pc' = "select"
    /\ transportErr' = TRUE
    /\ UNCHANGED <<cancelled, clock, req, resp, reqCtx, ret, handled, sent, nRecv, atCancel>>
    /\ UNCHANGED <<metricVars, callVars, auxVars>>

\* srv.Send(resp) fails: "failed to send response back to Envoy"
SendError ==
    /\ pc = "send"
    /\ pc' = "done"
    /\ ret' = StatusErr(Unknown)
    /\ transportErr' = TRUE
    /\ UNCHANGED <<cancelled, clock, req, resp, reqCtx, handled, sent, nRecv, atCancel>>
    /\ UNCHANGED <<metricVars, callVars, auxVars>>

Next ==
    \/ Cancel
    \/ Select
    \/ RecvMsg
    \/ RecvEOF
    \/ RecvError
    \/ ProcessRequestHeaders
    \/ ProcessRequestBody
    \/ ProcessResponseHeaders
    \/ ProcessResponseBody
    \/ ProcessUnknownType
    \/ SendOk
    \/ SendError

Spec == Init /\ [][Next]_vars

TypeOK ==
    /\ pc \in {"select", "recv", "handle", "send", "done"}
    /\ cancelled \in BOOLEAN
    /\ clock \in Times
    /\ req \in Messages \cup {NoMsg}
    /\ nRecv \in 0..MaxMsgs
    /\ Len(handled) <= nRecv
    /\ Len(sent) <= Len(handled)
    /\ (pc = "done") = (ret # NoRet)

(***************************************************************************)
(* The metrics package called directly, as its tests do: any function,     *)
(* any labels, any values, MaxCalls calls in all.                          *)
(***************************************************************************)
MetricLabels == {<<"m1", "t1">>, <<"m2", "t2">>, <<"m2", "t3">>}
ObservedValues == {1, 2}

Called(fn, l, received, complete, size) ==
    call' = [fn |-> fn, n |-> call.n + 1, modelName |-> l[1], targetModelName |-> l[2],
             received |-> received, complete |-> complete, size |-> size]

CallRecordRequestCounter ==
    /\ call.n < MaxCalls
    /\ \E l \in MetricLabels :
         /\ requestCounter' = RecordRequestCounter(requestCounter, l[1], l[2])
         /\ Called("RecordRequestCounter", l, ZeroTime, ZeroTime, 0)
    /\ UNCHANGED <<requestLatencies, requestSizes, responseSizes, inputTokens, outputTokens>>
    /\ UNCHANGED <<streamVars, latRet, auxVars>>

CallRecordRequestSizes ==
    /\ call.n < MaxCalls
    /\ \E l \in MetricLabels, v \in ObservedValues :
         /\ requestSizes' = RecordRequestSizes(requestSizes, l[1], l[2], v)
         /\ Called("RecordRequestSizes", l, ZeroTime, ZeroTime, v)
    /\ UNCHANGED <<requestCounter, requestLatencies, responseSizes, inputTokens, outputTokens>>
    /\ UNCHANGED <<streamVars, latRet, auxVars>>

CallRecordRequestLatencies ==
    /\ call.n < MaxCalls
    /\ \E l \in MetricLabels, received \in Times, complete \in Times :
         LET r == RecordRequestLatencies(requestLatencies, l[1], l[2], received, complete)
         IN  /\ requestLatencies' = r.vec
             /\ latRet' = r.ret
             /\ Called("RecordRequestLatencies", l, received, complete, 0)
    /\ UNCHANGED <<requestCounter, requestSizes, responseSizes, inputTokens, outputTokens>>
    /\ UNCHANGED <<streamVars, auxVars>>

CallRecordResponseSizes ==
    /\ call.n < MaxCalls
    /\ \E l \in MetricLabels, v \in ObservedValues :
         /\ responseSizes' = RecordResponseSizes(responseSizes, l[1], l[2], v)
         /\ Called("RecordResponseSizes", l, ZeroTime, ZeroTime, v)
    /\ UNCHANGED <<requestCounter, requestLatencies, requestSizes, inputTokens, outputTokens>>
    /\ UNCHANGED <<streamVars, latRet, auxVars>>

CallRecordInputTokens ==
    /\ call.n < MaxCalls
    /\ \E l \in MetricLabels, v \in ObservedValues :
         /\ inputTokens' = RecordInputTokens(inputTokens, l[1], l[2], v)
         /\ Called("RecordInputTokens", l, ZeroTime, ZeroTime, v)
    /\ UNCHANGED <<requestCounter, requestLatencies, requestSizes, responseSizes, outputTokens>>
    /\ UNCHANGED <<streamVars, latRet, auxVars>>

CallRecordOutputTokens ==
    /\ call.n < MaxCalls
    /\ \E l \in MetricLabels, v \in ObservedValues :
         /\ outputTokens' = RecordOutputTokens(outputTokens, l[1], l[2], v)
         /\ Called("RecordOutputTokens", l, ZeroTime, ZeroTime, v)
    /\ UNCHANGED <<requestCounter, requestLatencies, requestSizes, responseSizes, inputTokens>>
    /\ UNCHANGED <<streamVars, latRet, auxVars>>

NextMetrics ==
    \/ CallRecordRequestCounter
    \/ CallRecordRequestSizes
    \/ CallRecordRequestLatencies
    \/ CallRecordResponseSizes
    \/ CallRecordInputTokens
    \/ CallRecordOutputTokens

SpecMetrics == Init /\ [][NextMetrics]_vars

(***************************************************************************)
(* Properties of Process.                                                  *)
(***************************************************************************)
\* The step dispatches a message to its handler.
Dispatches == handled' # handled
Last(seq) == seq[Len(seq)]
Shed429 == ImmediateResponse(TooManyRequests)

\* The messages handled so far that satisfy P.
HandledOkBodies ==
    {i \in 1..Len(handled) : handled[i].type = "RequestBody" /\ handled[i].err = OK}
HandledCompletions ==
    {i \in 1..Len(handled) :
        /\ handled[i].type = "ResponseBody"
        /\ handled[i].err = OK
        /\ handled[i].complete}

\* C1: when HandleRequestBody fails with ResourceExhausted, the response
\* Process prepares and sends for that message is the ImmediateResponse
\* with status 429, without header mutation, and the handling leaves the
\* target pod of the request as it was (none selected).
C1_ShedAnsweredWith429 ==
    [][/\ (Dispatches /\ Last(handled').type = "RequestBody"
                      /\ Last(handled').err = ResourceExhausted)
          => /\ pc' = "send"
             /\ resp' = Shed429
             /\ resp'.setHeaders = {}
             /\ reqCtx'.TargetPod = reqCtx.TargetPod
       /\ (sent' # sent /\ Last(sent').type = "RequestBody"
                        /\ Last(sent').err = ResourceExhausted)
          => /\ Last(sent').resp.kind = "ImmediateResponse"
             /\ Last(sent').resp.status = 429
             /\ Last(sent').resp.setHeaders = {}
      ]_vars

\* A shed request body has been answered with 429 while no pod was selected.
C1_Witness ==
    \E j \in 1..Len(sent) :
        /\ sent[j].type = "RequestBody"
        /\ sent[j].err = ResourceExhausted
        /\ sent[j].resp = Shed429
        /\ reqCtx.TargetPod = NoPod

FailedBodies ==
    {i \in 1..Len(handled) :
        /\ handled[i].type = "RequestBody"
        /\ handled[i].err \notin {OK, ResourceExhausted}}

LabelsOf(vec) == {<<o[1], o[2]>> : o \in BagToSet(vec)}
StreamLabels == <<reqCtx.Model, reqCtx.ResolvedTargetModel>>

C7_SizeOnlyWithoutUsage ==
    [][(/\ Dispatches
        /\ Last(handled').type = "ResponseBody"
        /\ Last(handled').err = OK
        /\ Last(handled').complete
        /\ ~req.usage.present
        /\ reqCtx'.Response = ZeroResponse)
          => /\ responseSizes' # responseSizes
             /\ inputTokens' = inputTokens
             /\ outputTokens' = outputTokens
      ]_vars

\* C8: RecordRequestLatencies suppresses the observation exactly when
\* complete <= received: it then returns false and leaves the histogram as
\* it was; otherwise it returns true and adds one observation of value
\* complete - received under (model, target) and nothing else.
C8_LatencySuppression ==
    [][(call' # call /\ call'.fn = "RecordRequestLatencies")
          => IF call'.complete <= call'.received
             THEN latRet' = FALSE /\ requestLatencies' = requestLatencies
             ELSE /\ latRet' = TRUE
                  /\ BagCardinality(requestLatencies') = BagCardinality(requestLatencies) + 1
                  /\ CopiesIn(<<call'.modelName, call'.targetModelName,
                                call'.complete - call'.received>>, requestLatencies')
                        = CopiesIn(<<call'.modelName, call'.targetModelName,
                                     call'.complete - call'.received>>, requestLatencies) + 1
                  /\ \A o \in BagToSet(requestLatencies) :
                        CopiesIn(o, requestLatencies') >= CopiesIn(o, requestLatencies)
      ]_vars

\* A call with complete = received, both real readings of the clock, was
\* suppressed and left the earlier observation alone.
C8_Witness ==
    /\ call.fn = "RecordRequestLatencies"
    /\ call.received # ZeroTime
    /\ call.complete = call.received
    /\ latRet = FALSE
    /\ BagCardinality(requestLatencies) = 1

\* C9 as stated: after the cancellation no response is sent and no
\* observation is recorded, wherever in the loop the cancellation falls.
C9_NothingAfterCancel ==
    cancelled => /\ Len(sent) = atCancel.nSent
                 /\ TotalObservations = atCancel.nObs

\* C9 amended: Process looks at ctx.Done() only at the top of its loop.  A
\* cancellation that finds it there makes it return ctx.Err() without
\* receiving, sending or recording anything; a cancellation that falls
\* inside an iteration lets this iteration finish (at most one message
\* received, its observations recorded, one response sent), and Process
\* returns at the latest when it is back at the top of the loop.
C9_CancelSeenAtLoopTop ==
    cancelled =>
        /\ nRecv <= atCancel.nRecv + 1
        /\ atCancel.pc # "recv" => nRecv = atCancel.nRecv
        /\ Len(sent) <= atCancel.nSent + 1
        /\ TotalObservations <= atCancel.nObs + 4
        /\ atCancel.pc = "select"
              => /\ nRecv = atCancel.nRecv
                 /\ Len(sent) = atCancel.nSent
                 /\ TotalObservations = atCancel.nObs
                 /\ pc \in {"select", "done"}
                 /\ pc = "done" => ret = RetCtxErr

\* The context was cancelled while a message was being handled; the
\* message was still accounted and answered before Process returned
\* ctx.Err().
C9_Witness ==
    /\ cancelled
    /\ atCancel.pc = "handle"
    /\ pc = "done"
    /\ ret = RetCtxErr
    /\ TotalObservations > atCancel.nObs
    /\ Len(sent) = atCancel.nSent + 1

\* C10: a Recv error other than EOF or a failed Send ends Process with a
\* status error of code Unknown, and from then on nothing is received,
\* sent or recorded.
C10_TransportErrorIsTerminal ==
    [][/\ transportErr' => (pc' = "done" /\ ret' = StatusErr(Unknown))
       /\ transportErr => UNCHANGED <<nRecv, sent, handled, metricVars>>
       /\ (pc = "recv" /\ pc' = "done" /\ ret' # RetNil) => transportErr'
       /\ (pc = "send" /\ sent' = sent /\ pc' # "send") => transportErr'
      ]_vars

\* Send failed on the answer to a request body that had been accounted.
C10_Witness ==
    /\ transportErr
    /\ pc = "done"
    /\ ret = StatusErr(Unknown)
    /\ Len(handled) = 2
    /\ Len(sent) = 1
    /\ BagCardinality(requestCounter) = 1

(***************************************************************************)
(* Concurrent streams.  The transport calls Process once per stream, each  *)
(* call in its own goroutine; the calls share the clock and the metric     *)
(* vectors and nothing else.  ctx.Done() is looked at where the loop       *)
(* starts over, so a cancelled stream ends at its next Recv.  What Process *)
(* returns is left out: a returned invocation is just done and its locals  *)
(* are gone; req and resp are locals of the loop body and are gone when    *)
(* the loop starts over.                                                   *)
(***************************************************************************)
streamsFrame ==
    <<pc, cancelled, req, resp, reqCtx, ret, handled, sent, nRecv, transportErr,
      atCancel, callVars, recvResult, store, scheduling, startVars>>

\* Messages received so far, over all streams.
StreamsRecv == stream["s1"].nRecv + stream["s2"].nRecv

\* Faulty variant of Served: the RequestContext is held by the Server and
\* shared by its streams.
ServedSharingContext(s, l) ==
    [t \in Streams |-> IF t = s THEN l ELSE [stream[t] EXCEPT !.reqCtx = l.reqCtx]]

\* The streams after the invocation serving s has moved to l (reqCtx and the
\* other locals of Process belong to the invocation).
Served(s, l) == [stream EXCEPT ![s] = l]

\* An invocation that has returned.
Returned(l) == [FreshStream EXCEPT !.pc = "done", !.nRecv = l.nRecv]

\* The locals of an invocation after the handler returned h and the error
\* switch that follows the type switch.
AfterHandler(l, ctx, h) ==
    IF ErrorSwitch(h.resp, h.err).pc = "done"
    THEN Returned(l)
    ELSE [l EXCEPT !.reqCtx = ctx,
                   !.pc = ErrorSwitch(h.resp, h.err).pc,
                   !.resp = ErrorSwitch(h.resp, h.err).resp]

\* Process returns from the top of its loop: ctx.Done() is closed, or Recv
\* returns io.EOF or another error.
StreamReturn(s) ==
    /\ stream[s].pc = "recv"
    /\ stream' = Served(s, Returned(stream[s]))
    /\ UNCHANGED <<clock, metricVars, streamsFrame>>

\* req, err := srv.Recv() with err == nil.
StreamRecvMsg(s) ==
    /\ stream[s].pc = "recv"
    /\ StreamsRecv < MaxMsgs
    /\ \E m \in Messages :
         stream' = Served(s, [stream[s] EXCEPT !.req = m, !.nRecv = @ + 1, !.pc = "handle"])
    /\ UNCHANGED <<clock, metricVars, streamsFrame>>

\* case *extProcPb.ProcessingRequest_RequestHeaders
StreamRequestHeaders(s) ==
    /\ stream[s].pc = "handle"
    /\ stream[s].req.type = "RequestHeaders"
    /\ \E now \in clock..MaxTime :
         LET l == stream[s]
             h == HandleRequestHeaders([l.reqCtx EXCEPT !.RequestReceivedTimestamp = now],
                                       l.req)
         IN  /\ clock' = now
             /\ stream' = Served(s, AfterHandler(l, h.ctx, h))
    /\ UNCHANGED <<metricVars, streamsFrame>>

\* case *extProcPb.ProcessingRequest_RequestBody
StreamRequestBody(s) ==
    /\ stream[s].pc = "handle"
    /\ stream[s].req.type = "RequestBody"
    /\ \E snapshot \in Snapshots :
       \E target \in PickTarget(FetchModelData(stream[s].req.model)) :
       \E sched \in Schedule(FetchModelData(stream[s].req.model), snapshot) :
         LET l == stream[s]
             h == HandleRequestBody(l.reqCtx, l.req, target, sched)
         IN  /\ stream' = Served(s, AfterHandler(l, h.ctx, h))
             /\ IF h.err = OK
                THEN /\ requestCounter' =
                          RecordRequestCounter(requestCounter, h.ctx.Model,
                                               h.ctx.ResolvedTargetModel)
                     /\ requestSizes' =
                          RecordRequestSizes(requestSizes, h.ctx.Model,
                                             h.ctx.ResolvedTargetModel, h.ctx.RequestSize)
                ELSE UNCHANGED <<requestCounter, requestSizes>>
    /\ UNCHANGED <<clock, requestLatencies, responseSizes, inputTokens, outputTokens,
                   streamsFrame>>

\* case *extProcPb.ProcessingRequest_ResponseHeaders
StreamResponseHeaders(s) ==
    /\ stream[s].pc = "handle"
    /\ stream[s].req.type = "ResponseHeaders"
    /\ \E fail \in HandlerFailures :
         LET l == stream[s]
             h == HandleResponseHeaders(l.reqCtx, l.req, fail)
         IN  stream' = Served(s, AfterHandler(l, h.ctx, h))
    /\ UNCHANGED <<clock, metricVars, streamsFrame>>

\* case *extProcPb.ProcessingRequest_ResponseBody
StreamResponseBody(s) ==
    /\ stream[s].pc = "handle"
    /\ stream[s].req.type = "ResponseBody"
    /\ \E fail \in HandlerFailures :
       \E now \in clock..MaxTime :
         LET l == stream[s]
             h == HandleResponseBody(l.reqCtx, l.req, fail)
             a == ResponseBodyAccounting(h, now)
         IN  /\ (h.err = OK /\ h.ctx.ResponseComplete) \/ now = clock
             /\ clock' = now
             /\ stream' = Served(s, AfterHandler(l, a.ctx, h))
             /\ requestLatencies' = a.requestLatencies
             /\ responseSizes' = a.responseSizes
             /\ inputTokens' = a.inputTokens
             /\ outputTokens' = a.outputTokens
    /\ UNCHANGED <<requestCounter, requestSizes, streamsFrame>>

\* default: return status.Error(codes.Unknown, "unknown request type")
StreamUnknownType(s) ==
    /\ stream[s].pc = "handle"
    /\ stream[s].req.type \notin {"RequestHeaders", "RequestBody", "ResponseHeaders", "ResponseBody"}
    /\ stream' = Served(s, Returned(stream[s]))
    /\ UNCHANGED <<clock, metricVars, streamsFrame>>

\* srv.Send(resp) returns nil.
StreamSendOk(s) ==
    /\ stream[s].pc = "send"
    /\ stream' = Served(s, [stream[s] EXCEPT !.pc = "recv", !.req = NoMsg, !.resp = NoResp])
    /\ UNCHANGED <<clock, metricVars, streamsFrame>>

\* srv.Send(resp) fails: "failed to send response back to Envoy"
StreamSendError(s) ==
    /\ stream[s].pc = "send"
    /\ stream' = Served(s, Returned(stream[s]))
    /\ UNCHANGED <<clock, metricVars, streamsFrame>>

NextStreams ==
    \E s \in Streams :
        \/ StreamReturn(s)
        \/ StreamRecvMsg(s)
        \/ StreamRequestHeaders(s)
        \/ StreamRequestBody(s)
        \/ StreamResponseHeaders(s)
        \/ StreamResponseBody(s)
        \/ StreamUnknownType(s)
        \/ StreamSendOk(s)
        \/ StreamSendError(s)

SpecStreams == Init /\ [][NextStreams]_vars

\* The step is taken by the invocation serving s and leaves the locals of
\* every other invocation alone.
StepOf(s) ==
    /\ stream'[s] # stream[s]
    /\ \A t \in Streams \ {s} : stream'[t] = stream[t]

\* The step of s handles its message without error, or sheds it, and the
\* invocation goes on to send.
Handles(s, type) ==
    /\ stream[s].pc = "handle"
    /\ stream[s].req.type = type
    /\ stream'[s].pc = "send"

\* The RequestContext of s after the step comes from its RequestContext
\* before and from the message s is handling: RequestHeaders stamps the
\* reception, an accepted RequestBody sets the labels, the size and the pod
\* (the pod the response names), a ResponseBody handled without error adds
\* to the response and stamps its completion; nothing else changes it.
OwnContext(s) ==
    LET l == stream[s]
        n == stream'[s]
        c == n.reqCtx
    IN  \/ n.pc = "done" /\ c = RequestContext
        \/ n.pc # "done" /\ c = l.reqCtx
              /\ ~Handles(s, "RequestHeaders")
              /\ ~(Handles(s, "RequestBody") /\ n.resp.kind = "RequestBody")
              /\ ~(Handles(s, "ResponseBody") /\ n.resp.kind = "ResponseBody")
        \/ /\ Handles(s, "RequestHeaders")
           /\ c = [l.reqCtx EXCEPT !.RequestReceivedTimestamp = clock']
        \/ /\ Handles(s, "RequestBody")
           /\ n.resp.kind = "RequestBody"
           /\ c.ResolvedTargetModel \in FetchModelData(l.req.model).targetModels
           /\ c.TargetPod \in Backends
           /\ n.resp.setHeaders = {<<targetPodHeader, c.TargetPod>>}
           /\ c = [l.reqCtx EXCEPT !.Model = l.req.model,
                                   !.ResolvedTargetModel = c.ResolvedTargetModel,
                                   !.RequestSize = l.req.size,
                                   !.TargetPod = c.TargetPod]
        \/ /\ Handles(s, "ResponseBody")
           /\ n.resp.kind = "ResponseBody"
           /\ c = [l.reqCtx EXCEPT
                     !.Response = IF l.req.usage.present
                                  THEN [Usage |-> [PromptTokens |-> l.req.usage.PromptTokens,
                                                   CompletionTokens |-> l.req.usage.CompletionTokens]]
                                  ELSE @,
                     !.ResponseSize = @ + l.req.size,
                     !.ResponseComplete = @ \/ l.req.endOfStream,
                     !.ResponseCompleteTimestamp =
                         IF l.reqCtx.ResponseComplete \/ l.req.endOfStream
                         THEN clock' ELSE @]

\* What the step adds to a metric vector, if anything, is one observation.
AddsNothingOr(vecAfter, vecBefore, observation) ==
    vecAfter = vecBefore \/ vecAfter = vecBefore (+) SetToBag({observation})

\* The observations the step of s adds carry the labels and the values of
\* the RequestContext of s.
OwnAccounting(s) ==
    LET c == stream'[s].reqCtx
    IN  /\ AddsNothingOr(requestCounter', requestCounter,
                         <<c.Model, c.ResolvedTargetModel>>)
        /\ AddsNothingOr(requestSizes', requestSizes,
                         <<c.Model, c.ResolvedTargetModel, c.RequestSize>>)
        /\ AddsNothingOr(requestLatencies', requestLatencies,
                         <<c.Model, c.ResolvedTargetModel,
                           c.ResponseCompleteTimestamp - c.RequestReceivedTimestamp>>)
        /\ AddsNothingOr(responseSizes', responseSizes,
                         <<c.Model, c.ResolvedTargetModel, c.ResponseSize>>)
        /\ AddsNothingOr(inputTokens', inputTokens,
                         <<c.Model, c.ResolvedTargetModel, c.Response.Usage.PromptTokens>>)
        /\ AddsNothingOr(outputTokens', outputTokens,
                         <<c.Model, c.ResolvedTargetModel, c.Response.Usage.CompletionTokens>>)

\* C11: every invocation of Process has its own RequestContext.  Whatever
\* the interleaving of the streams, a step is the step of one stream: it
\* leaves the locals of the other streams alone, the RequestContext it
\* leaves comes from that stream's RequestContext and message alone, and
\* the response and the observations it produces carry the labels,
\* timestamps, sizes and completion flag of that RequestContext.
C11_OwnRequestContext ==
    [][\E s \in Streams : StepOf(s) /\ OwnContext(s) /\ OwnAccounting(s)]_vars

\* Both streams are in the middle of an iteration: the first, whose request
\* named m1, has just accounted its completed response under (m1, t1); the
\* second has just been routed for m2.
C11_Witness ==
    /\ stream["s1"].pc = "send"
    /\ stream["s1"].resp.kind = "ResponseBody"
    /\ stream["s1"].reqCtx.Model = "m1"
    /\ stream["s1"].reqCtx.ResponseComplete
    /\ stream["s2"].pc = "send"
    /\ stream["s2"].resp.kind = "RequestBody"
    /\ stream["s2"].reqCtx.Model = "m2"
    /\ BagToSet(responseSizes) = {<<"m1", "t1", 1>>}
    /\ BagCardinality(requestCounter) = 2

\* The step records a request with the label pair p: some stream's
\* RequestBody message is accepted and leaves p in its RequestContext.
Records(p) ==
    \E s \in Streams :
        /\ Handles(s, "RequestBody")
        /\ stream'[s].resp.kind = "RequestBody"
        /\ p = <<stream'[s].reqCtx.Model, stream'[s].reqCtx.ResolvedTargetModel>>

schedFrame == <<streamVars, metricVars, callVars, recvResult, stream, startVars>>

\* The scraper adds backend b or refreshes its metrics.
Upsert(b, saturated) ==
    /\ store' = [store EXCEPT ![b] = [known |-> TRUE, age |-> 0, saturated |-> saturated]]
    /\ UNCHANGED <<scheduling, schedFrame>>

\* Backend b leaves the pool.
Remove(b) ==
    /\ store[b].known
    /\ store' = [store EXCEPT ![b] = NoEntry]
    /\ UNCHANGED <<scheduling, schedFrame>>

\* A second passes without a refresh.
Tick ==
    /\ \E b \in Backends : store[b].known /\ store[b].age < MaxAge
    /\ store' = [b \in Backends |->
                   IF store[b].known /\ store[b].age < MaxAge
                   THEN [store[b] EXCEPT !.age = @ + 1]
                   ELSE store[b]]
    /\ UNCHANGED <<scheduling, schedFrame>>

\* Schedule, step 1: snapshot the store for a request body naming a model.
\* The scheduler keeps nothing from the request before.
ScheduleSnapshot ==
    /\ scheduling.pc \in {"idle", "returned"}
    /\ \E msg \in {m \in RequestBodyMsgs : m.model # NoModel} :
         scheduling' = [Idle EXCEPT !.pc = "snapshot", !.msg = msg, !.raw = store]
    /\ UNCHANGED <<store, schedFrame>>

\* Faulty variant of ScheduleDecide: the candidates are read from the live
\* store, not from the snapshot.
ScheduleDecideOnLiveStore ==
    /\ scheduling.pc = "snapshot"
    /\ \E target \in PickTarget(FetchModelData(scheduling.msg.model)) :
       \E result \in Schedule(FetchModelData(scheduling.msg.model), List(store)) :
         LET h == HandleRequestBody(RequestContext, scheduling.msg, target, result)
         IN  scheduling' = [scheduling EXCEPT !.pc = "returned",
                                              !.result = result,
                                              !.resp = h.resp,
                                              !.ctx = h.ctx,
                                              !.err = h.err]
    /\ UNCHANGED <<store, schedFrame>>

\* Schedule, steps 2 and 3, and the rest of HandleRequestBody: the filters
\* run on the snapshot and the response is built from the result.
ScheduleDecide ==
    /\ scheduling.pc = "snapshot"
    /\ \E target \in PickTarget(FetchModelData(scheduling.msg.model)) :
       \E result \in Schedule(FetchModelData(scheduling.msg.model), List(scheduling.raw)) :
         LET h == HandleRequestBody(RequestContext, scheduling.msg, target, result)
         IN  scheduling' = [scheduling EXCEPT !.pc = "returned",
                                              !.result = result,
                                              !.resp = h.resp,
                                              !.ctx = h.ctx,
                                              !.err = h.err]
    /\ UNCHANGED <<store, schedFrame>>

NextSched ==
    \/ \E b \in Backends, saturated \in BOOLEAN : Upsert(b, saturated)
    \/ \E b \in Backends : Remove(b)
    \/ Tick
    \/ ScheduleSnapshot
    \/ ScheduleDecide

SpecSched == Init /\ [][NextSched]_vars

\* The target-pod entries of the header mutation of the response built for
\* the request body being scheduled.
TargetPodHeaders == {h \in scheduling.resp.setHeaders : h[1] = targetPodHeader}

\* C13: when the request body is accepted, the response built for it sets
\* targetPodHeader exactly once, to the address of a backend that was in the
\* snapshot of the store taken when Schedule ran (it is the backend written
\* to the RequestContext), whatever was added to or removed from the store
\* in the meantime.
C13_TargetPodFromSnapshot ==
    (scheduling.pc = "returned" /\ scheduling.err = OK)
        => /\ scheduling.resp.kind = "RequestBody"
           /\ Cardinality(TargetPodHeaders) = 1
           /\ \A h \in TargetPodHeaders :
                 /\ h[2] \in Backends
                 /\ scheduling.raw[h[2]].known
                 /\ h[2] = scheduling.ctx.TargetPod

\* The chosen backend was removed from the store, and another one added,
\* between the snapshot and the response.
C13_Witness ==
    /\ scheduling.pc = "returned"
    /\ scheduling.err = OK
    /\ \E b \in Backends :
          /\ <<targetPodHeader, b>> \in scheduling.resp.setHeaders
          /\ ~store[b].known
    /\ \E b \in Backends : store[b].known /\ ~scheduling.raw[b].known

\* C14: Schedule returns no backend whose metrics were older than
\* metricStaleness in the snapshot; when the snapshot holds backends and all
\* of them are stale, the request is rejected with ServiceUnavailable and no
\* response routes it.
C14_NoStaleBackend ==
    scheduling.pc = "returned"
        => /\ scheduling.result.err = OK
              => /\ scheduling.result.pod \in Backends
                 /\ scheduling.raw[scheduling.result.pod].known
                 /\ scheduling.raw[scheduling.result.pod].age <= metricStaleness
           /\ (/\ \E b \in Backends : scheduling.raw[b].known
               /\ \A b \in Backends :
                     scheduling.raw[b].known => scheduling.raw[b].age > metricStaleness)
              => /\ scheduling.result.err = Unavailable
                 /\ scheduling.err = Unavailable
                 /\ scheduling.resp = NoResp

\* One backend of the snapshot was stale and the other fresh: the fresh one
\* was chosen.
C14_Witness ==
    /\ scheduling.pc = "returned"
    /\ scheduling.result.err = OK
    /\ \E b \in Backends :
          /\ scheduling.raw[b].known
          /\ scheduling.raw[b].age > metricStaleness
          /\ ~scheduling.raw[b].saturated
          /\ scheduling.result.pod # b

KnownTypes == {"RequestHeaders", "RequestBody", "ResponseHeaders", "ResponseBody"}
ResponseVectors == <<requestLatencies, responseSizes, inputTokens, outputTokens>>

\* C15: Process is strictly request/response.  The responses sent answer,
\* one each and in order, the messages received; every message is answered
\* before the next one is received; and a message of a known type whose
\* handler succeeded or failed with ResourceExhausted has its response
\* either sent, or about to be handed to Send, or refused by Send (which
\* ends Process).
C15_RequestResponse ==
    /\ Len(sent) <= Len(handled)
    /\ \A j \in 1..Len(sent) :
          /\ sent[j].seq = j
          /\ sent[j].type = handled[j].type
          /\ sent[j].err = handled[j].err
          /\ sent[j].type \in KnownTypes
          /\ sent[j].err \in {OK, ResourceExhausted}
    /\ pc \in {"select", "recv"} => (Len(sent) = nRecv /\ Len(handled) = nRecv)
    /\ \A i \in 1..Len(handled) :
          handled[i].err \in {OK, ResourceExhausted}
             => \/ i <= Len(sent)
                \/ i = Len(handled) /\ pc = "send"
                \/ i = Len(handled) /\ pc = "done" /\ transportErr

\* Three messages were received and answered in turn, one of them with the
\* 429 of a shed request.
C15_Witness ==
    /\ Len(sent) = 3
    /\ pc = "select"
    /\ \E j \in 1..3 : sent[j].err = ResourceExhausted
    /\ \E j \in 1..3 : sent[j].err = OK

\* C16: a ResponseBody message whose handler fails, or after which
\* ResponseComplete is not set, adds nothing to the latency, response-size
\* and token histograms and leaves ResponseCompleteTimestamp alone; only a
\* ResponseBody message handled without error with ResponseComplete set
\* touches any of them.
C16_OnlyCompletionIsAccounted ==
    [][/\ (/\ Dispatches
           /\ Last(handled').type = "ResponseBody"
           /\ (Last(handled').err # OK \/ ~Last(handled').complete))
          => /\ UNCHANGED ResponseVectors
             /\ reqCtx'.ResponseCompleteTimestamp = reqCtx.ResponseCompleteTimestamp
       /\ (\/ ResponseVectors' # ResponseVectors
           \/ reqCtx'.ResponseCompleteTimestamp # reqCtx.ResponseCompleteTimestamp)
          => /\ Dispatches
             /\ Last(handled').type = "ResponseBody"
             /\ Last(handled').err = OK
             /\ Last(handled').complete
             /\ reqCtx'.ResponseComplete
      ]_vars

\* A partial chunk was handled without error: its size is accumulated and
\* nothing is observed.
C16_Witness ==
    /\ pc = "send"
    /\ Len(handled) > 0
    /\ Last(handled).type = "ResponseBody"
    /\ Last(handled).err = OK
    /\ ~Last(handled).complete
    /\ reqCtx.ResponseSize > 0
    /\ reqCtx.ResponseCompleteTimestamp = ZeroTime
    /\ BagCardinality(responseSizes) = 0

\* C17: when HandleRequestBody returns an error, the 429 case included,
\* neither the request counter nor the request-size histogram changes.
C17_RejectedNotCounted ==
    [][(/\ Dispatches
        /\ Last(handled').type = "RequestBody"
        /\ Last(handled').err # OK)
          => /\ requestCounter' = requestCounter
             /\ requestSizes' = requestSizes
      ]_vars

\* One request body was accepted and a later one shed: one request counted.
C17_Witness ==
    /\ Len(handled) = 2
    /\ handled[1].type = "RequestBody" /\ handled[1].err = OK
    /\ handled[2].type = "RequestBody" /\ handled[2].err = ResourceExhausted
    /\ BagCardinality(requestCounter) = 1
    /\ BagCardinality(requestSizes) = 1

\* C18: a latency observation exists only if a RequestHeaders message was
\* processed earlier on the stream.
C18_LatencyNeedsRequestHeaders ==
    BagCardinality(requestLatencies) > 0
        => \E i \in 1..Len(handled) : handled[i].type = "RequestHeaders"

\* C19: when Recv returns io.EOF, Process returns nil without sending or
\* recording anything, wherever the pipeline stands.
C19_EOFReturnsNil ==
    [][(pc = "recv" /\ recvResult' = "EOF")
          => /\ pc' = "done"
             /\ ret' = RetNil
             /\ ~transportErr'
             /\ UNCHANGED <<sent, handled, nRecv, reqCtx, metricVars>>
      ]_vars

\* The stream ended after a request body had been accounted and answered.
C19_Witness ==
    /\ recvResult = "EOF"
    /\ pc = "done"
    /\ ret = RetNil
    /\ Len(sent) = 2
    /\ BagCardinality(requestCounter) = 1

\* C20: a message of none of the four known types ends Process with a
\* status error of code Unknown; no response is sent for it, the
\* RequestContext stays as it was and nothing is recorded.
C20_UnknownTypeEndsProcess ==
    [][(pc = "handle" /\ req.type \notin KnownTypes /\ pc' # "handle")
          => /\ pc' = "done"
             /\ ret' = StatusErr(Unknown)
             /\ UNCHANGED <<reqCtx, sent, handled, metricVars>>
      ]_vars

\* A message of unknown type arrived after a request body had been answered.
C20_Witness ==
    /\ pc = "done"
    /\ req.type = "Other"
    /\ ret = StatusErr(Unknown)
    /\ ~transportErr
    /\ nRecv = 2
    /\ Len(sent) = 1
    /\ reqCtx.Model # NoModel

(***************************************************************************)
(* Register, called by several goroutines.  registerMetrics.Do(f) is       *)
(* sync.Once.Do: a load of done on the fast path, otherwise the mutex, a   *)
(* second look at done, f, and done set when f has returned.               *)
(***************************************************************************)
registerFrame ==
    <<streamVars, metricVars, callVars, recvResult, stream, store, scheduling,
      tracing, otel, closing>>

\* Register() is called.
RegisterCall(g) ==
    /\ caller[g].pc = "idle"
    /\ caller[g].returned < MaxCalls
    /\ caller' = [caller EXCEPT ![g].pc = "do"]
    /\ UNCHANGED <<once, registry, registerFrame>>

\* Do: if done is set the call returns, otherwise it goes for the mutex.
OnceDo(g) ==
    /\ caller[g].pc = "do"
    /\ caller' = [caller EXCEPT ![g] = IF once.done
                                       THEN [@ EXCEPT !.pc = "idle", !.returned = @ + 1]
                                       ELSE [@ EXCEPT !.pc = "lock"]]
    /\ UNCHANGED <<once, registry, registerFrame>>

\* Faulty variant of OnceLock: done is not looked at again under the mutex.
OnceLockWithoutSecondLook(g) ==
    /\ caller[g].pc = "lock"
    /\ once.m = NoGoroutine
    /\ once' = [once EXCEPT !.m = g]
    /\ caller' = [caller EXCEPT ![g] = [@ EXCEPT !.pc = "f", !.i = 0]]
    /\ UNCHANGED <<registry, registerFrame>>

\* doSlow: the mutex is taken; if done has been set meanwhile the call
\* unlocks and returns, otherwise it runs the function.
OnceLock(g) ==
    /\ caller[g].pc = "lock"
    /\ once.m = NoGoroutine
    /\ IF once.done
       THEN /\ caller' = [caller EXCEPT ![g] = [@ EXCEPT !.pc = "idle", !.returned = @ + 1]]
            /\ once' = once
       ELSE /\ caller' = [caller EXCEPT ![g] = [@ EXCEPT !.pc = "f", !.i = 0]]
            /\ once' = [once EXCEPT !.m = g]
    /\ UNCHANGED <<registry, registerFrame>>

\* legacyregistry.MustRegister of the next vector.
MustRegister(g) ==
    /\ caller[g].pc = "f"
    /\ caller[g].i < Len(MetricNames)
    /\ registry' = registry (+) SetToBag({MetricNames[caller[g].i + 1]})
    /\ caller' = [caller EXCEPT ![g].i = @ + 1]
    /\ UNCHANGED <<once, registerFrame>>

\* The function has returned: done is set, the mutex released, Register
\* returns.
OnceDone(g) ==
    /\ caller[g].pc = "f"
    /\ caller[g].i = Len(MetricNames)
    /\ once' = [done |-> TRUE, m |-> NoGoroutine]
    /\ caller' = [caller EXCEPT ![g] = [@ EXCEPT !.pc = "idle", !.returned = @ + 1]]
    /\ UNCHANGED <<registry, registerFrame>>

NextRegister ==
    \E g \in Goroutines :
        \/ RegisterCall(g)
        \/ OnceDo(g)
        \/ OnceLock(g)
        \/ MustRegister(g)
        \/ OnceDone(g)

SpecRegister == Init /\ [][NextRegister]_vars

\* The names of the six vectors.
AllMetrics == {MetricNames[i] : i \in 1..Len(MetricNames)}

\* C21: whatever the number and the interleaving of the calls of Register,
\* no vector is registered twice, and once any call has returned every one
\* of the six vectors is registered, exactly once.
C21_RegisteredOnce ==
    /\ BagToSet(registry) \subseteq AllMetrics
    /\ \A n \in AllMetrics : CopiesIn(n, registry) <= 1
    /\ (\E g \in Goroutines : caller[g].returned > 0)
          => \A n \in AllMetrics : CopiesIn(n, registry) = 1

\* Both goroutines were in Register at once, one waiting for the mutex while
\* the other was registering, and the call of the first has returned.
C21_Witness ==
    /\ caller["g1"].returned = 1
    /\ caller["g1"].i = Len(MetricNames)
    /\ caller["g2"].pc = "lock"
    /\ once.done
    /\ BagCardinality(registry) = Len(MetricNames)

(***************************************************************************)
(* tracing.Initialize, part_001:158-228, and the calls of the shutdown     *)
(* function it returns.                                                    *)
(***************************************************************************)
tracingFrame ==
    <<streamVars, metricVars, callVars, recvResult, stream, store, scheduling,
      once, registry, caller>>

\* errors.Join and the error a failing step returns.
Join(err, e) == err \o e
Errorf(what) == <<what>>

\* What Initialize leaves when it returns (shutdown, err).
Return(shutdown, err) ==
    [tracing EXCEPT !.pc = "returned", !.shutdown = shutdown, !.err = err]

\* Initialize is called with a config; each of the program's global
\* providers is the default or a provider set earlier.
InitializeCall ==
    /\ tracing.pc = "idle"
    /\ \E enabled \in BOOLEAN, tracer \in {"noop", "prior"}, logger \in {"noop", "prior"} :
         /\ tracing' = [tracing EXCEPT !.pc = "propagator", !.enabled = enabled,
                                       !.before = [tracerProvider |-> tracer,
                                                   loggerProvider |-> logger]]
         /\ otel' = [otel EXCEPT !.tracerProvider = tracer, !.loggerProvider = logger]
    /\ UNCHANGED <<closing, tracingFrame>>

\* Faulty variant of SetTextMapPropagator: the propagator is set only when
\* tracing is enabled.
SetTextMapPropagatorWhenEnabled ==
    /\ tracing.pc = "propagator"
    /\ otel' = IF tracing.enabled THEN [otel EXCEPT !.propagator = "composite"] ELSE otel
    /\ tracing' = [tracing EXCEPT !.pc = "config"]
    /\ UNCHANGED <<closing, tracingFrame>>

\* otel.SetTextMapPropagator(TraceContext, Baggage)
SetTextMapPropagator ==
    /\ tracing.pc = "propagator"
    /\ otel' = [otel EXCEPT !.propagator = "composite"]
    /\ tracing' = [tracing EXCEPT !.pc = "config"]
    /\ UNCHANGED <<closing, tracingFrame>>

\* if !config.Enabled { return shutdown, nil }
ReturnDisabled ==
    /\ tracing.pc = "config"
    /\ ~tracing.enabled
    /\ tracing' = Return("func", Nil)
    /\ UNCHANGED <<otel, closing, tracingFrame>>

\* otlptracegrpc.New
NewTraceExporter ==
    /\ tracing.pc = "config"
    /\ tracing.enabled
    /\ \E fails \in BOOLEAN :
         tracing' = IF fails
                    THEN Return("nil", Errorf("failed to create trace exporter"))
                    ELSE [tracing EXCEPT !.pc = "resource"]
    /\ UNCHANGED <<otel, closing, tracingFrame>>

\* resource.New
NewResource ==
    /\ tracing.pc = "resource"
    /\ \E fails \in BOOLEAN :
         tracing' = IF fails
                    THEN Return("nil", Errorf("failed to create resource"))
                    ELSE [tracing EXCEPT !.pc = "tp"]
    /\ UNCHANGED <<otel, closing, tracingFrame>>

\* tp := sdktrace.NewTracerProvider(...); shutdownFuncs = append(shutdownFuncs, tp.Shutdown)
NewTracerProvider ==
    /\ tracing.pc = "tp"
    /\ closing' = [closing EXCEPT !.state["tp"] = "live"]
    /\ tracing' = [tracing EXCEPT !.pc = "logExporter",
                                  !.shutdownFuncs = Append(@, "tp"),
                                  !.registered = Append(@, "tp")]
    /\ UNCHANGED <<otel, tracingFrame>>

\* otlploggrpc.New
NewLogExporter ==
    /\ tracing.pc = "logExporter"
    /\ \E fails \in BOOLEAN :
         tracing' = IF fails
                    THEN Return("nil", Errorf("failed to create log exporter"))
                    ELSE [tracing EXCEPT !.pc = "lp"]
    /\ UNCHANGED <<otel, closing, tracingFrame>>

\* lp := sdklog.NewLoggerProvider(...); the append of lp.Shutdown; the two
\* globals; return shutdown, nil
NewLoggerProvider ==
    /\ tracing.pc = "lp"
    /\ closing' = [closing EXCEPT !.state["lp"] = "live"]
    /\ otel' = [otel EXCEPT !.loggerProvider = "lp", !.tracerProvider = "tp"]
    /\ tracing' = [Return("func", Nil) EXCEPT !.shutdownFuncs = Append(@, "lp"),
                                              !.registered = Append(@, "lp")]
    /\ UNCHANGED tracingFrame

\* The caller calls the shutdown function it was given: var err error, and
\* the range over shutdownFuncs begins.
ShutdownCall ==
    /\ tracing.pc = "returned"
    /\ tracing.shutdown = "func"
    /\ closing.pc = "idle"
    /\ Len(closing.rets) < MaxCalls
    /\ closing' = [closing EXCEPT !.pc = "range", !.funcs = tracing.shutdownFuncs,
                                  !.pos = 1, !.err = Nil]
    /\ UNCHANGED <<tracing, otel, tracingFrame>>

\* err = errors.Join(err, fn(ctx)): the cleanup shuts its provider down and
\* returns nil or an error.
ShutdownInvoke ==
    /\ closing.pc = "range"
    /\ closing.pos <= Len(closing.funcs)
    /\ \E e \in {Nil, Errorf(closing.funcs[closing.pos])} :
         closing' = [closing EXCEPT !.state[closing.funcs[closing.pos]] = "shutdown",
                                    !.invoked = Append(@, [fn |-> closing.funcs[closing.pos],
                                                           err |-> e]),
                                    !.err = Join(@, e),
                                    !.pos = @ + 1]
    /\ UNCHANGED <<tracing, otel, tracingFrame>>

\* Faulty variant of ShutdownReturn: shutdownFuncs is not reset.
ShutdownReturnKeepingFuncs ==
    /\ closing.pc = "range"
    /\ closing.pos > Len(closing.funcs)
    /\ closing' = [closing EXCEPT !.pc = "idle", !.rets = Append(@, closing.err)]
    /\ UNCHANGED <<tracing, otel, tracingFrame>>

\* shutdownFuncs = nil; return err
ShutdownReturn ==
    /\ closing.pc = "range"
    /\ closing.pos > Len(closing.funcs)
    /\ tracing' = [tracing EXCEPT !.shutdownFuncs = <<>>]
    /\ closing' = [closing EXCEPT !.pc = "idle", !.rets = Append(@, closing.err)]
    /\ UNCHANGED <<otel, tracingFrame>>

NextTracing ==
    \/ InitializeCall
    \/ SetTextMapPropagator
    \/ ReturnDisabled
    \/ NewTraceExporter
    \/ NewResource
    \/ NewTracerProvider
    \/ NewLogExporter
    \/ NewLoggerProvider
    \/ ShutdownCall
    \/ ShutdownInvoke
    \/ ShutdownReturn

SpecTracing == Init /\ [][NextTracing]_vars

\* The cleanups invoked so far, and the join of what they returned.
RECURSIVE JoinAll(_)
JoinAll(calls) ==
    IF calls = <<>> THEN Nil
    ELSE Join(JoinAll(SubSeq(calls, 1, Len(calls) - 1)), calls[Len(calls)].err)
InvokedFns == [i \in 1..Len(closing.invoked) |-> closing.invoked[i].fn]

\* C22: over the calls of the shutdown function Initialize returned, every
\* registered cleanup is invoked once.  The cleanups invoked are at all
\* times the first of the registered ones, in the order of registration;
\* when the first call has returned all of them have been invoked, whatever
\* an earlier one returned, and the call returned the join of their errors;
\* every later call has returned nil.
C22_CleanupsOnce ==
    /\ Len(closing.invoked) <= Len(tracing.registered)
    /\ InvokedFns = SubSeq(tracing.registered, 1, Len(closing.invoked))
    /\ \A i, j \in 1..Len(tracing.registered) :
          tracing.registered[i] = tracing.registered[j] => i = j
    /\ Len(closing.rets) >= 1
          => /\ Len(closing.invoked) = Len(tracing.registered)
             /\ closing.rets[1] = JoinAll(closing.invoked)
             /\ \A k \in 2..Len(closing.rets) : closing.rets[k] = Nil

\* shutdown was called twice after a successful Initialize: the first call
\* invoked both cleanups although the first of them failed, and returned
\* that error; the second call returned nil.
C22_Witness ==
    /\ Len(closing.rets) = 2
    /\ closing.pc = "idle"
    /\ closing.invoked = << [fn |-> "tp", err |-> Errorf("tp")], [fn |-> "lp", err |-> Nil] >>
    /\ closing.rets = << Errorf("tp"), Nil >>

\* C23: whenever Initialize has returned, with or without error, tracing
\* enabled or not, the global propagator has been set; with tracing
\* disabled it returned a nil error and a shutdown function with nothing
\* registered, and the global tracer and logger providers are what they
\* were before the call.
C23_PropagatorAlwaysSet ==
    tracing.pc = "returned"
        => /\ otel.propagator = "composite"
           /\ ~tracing.enabled
                 => /\ tracing.err = Nil
                    /\ tracing.shutdown = "func"
                    /\ tracing.registered = <<>>
                    /\ tracing.shutdownFuncs = <<>>
                    /\ closing.invoked = <<>>
                    /\ otel.tracerProvider = tracing.before.tracerProvider
                    /\ otel.loggerProvider = tracing.before.loggerProvider

\* Initialize returned with tracing disabled, and its shutdown function has
\* been called: the propagator is set, the provider set earlier is untouched.
C23_Witness ==
    /\ tracing.pc = "returned"
    /\ ~tracing.enabled
    /\ otel.propagator = "composite"
    /\ tracing.before.tracerProvider = "prior"
    /\ otel.tracerProvider = "prior"
    /\ closing.rets = <<Nil>>

\* C24: when Initialize has returned, every provider it created and that
\* has not been shut down is covered by the shutdown function the caller
\* holds.
C24_NoProviderLeftBehind ==
    tracing.pc = "returned"
        => \A p \in Providers :
              closing.state[p] = "live"
                 => /\ tracing.shutdown = "func"
                    /\ \E i \in 1..Len(tracing.shutdownFuncs) : tracing.shutdownFuncs[i] = p

====
